---------------------------- MODULE Spec2Model ----------------------------
(***************************************************************************)
(* Shipment optimization engine (src/optimization_engine_v2.py).           *)
(*                                                                         *)
(* AdvancedOptimizationEngine.optimize_shipment_plan is modelled as a      *)
(* sequence of steps, one action per private method it calls, in call      *)
(* order; pc is the position inside optimize_shipment_plan.                *)
(*                                                                         *)
(* Numbers.  Weights, volumes, costs and days are integers.  A value the   *)
(* code computes by division (a mean, a rate) is kept as an exact fraction *)
(* [num, den] with den > 0.  Dates are day numbers relative to today       *)
(* (today = 0), which is what toordinal() differences read.                *)
(*                                                                         *)
(* Environment.  Whether ortools imports, whether CreateSolver returns a   *)
(* solver, the status Solve() reports on a feasible model, the time of day *)
(* of datetime.now() and the success of a write are inputs.  A sample      *)
(* of rng.normal(0, 1) is one of JitterVals.  All calls of datetime.now()  *)
(* of one run fall on the same day.  batch_id and route_id are unique.     *)
(*                                                                         *)
(* Spec is a whole run of optimize_shipment_plan; SpecPack runs packing    *)
(* and routing, SpecRisk the risk assessment and SpecOtif the OTIF         *)
(* validation, on inputs of their own.  SpecDraw is the risk assessment    *)
(* with the drawn jitter matrix kept in draw.  SpecScenario is a whole run *)
(* on one small input.  SpecService is a run called through                *)
(* OptimizationService.run_optimization.  SpecDb is one history file under *)
(* engine constructions, runs and clear_optimization_history calls made    *)
(* one after the other, each construction running to completion.           *)
(***************************************************************************)
EXTENDS Integers, Sequences, FiniteSets, TLC

VARIABLES
    pc,               \* position in optimize_shipment_plan
    batches_df,       \* input batch table (sequence of rows)
    routes_df,        \* input route table (sequence of rows)
    solver_available, \* self.solver_available  (ORTOOLS_AVAILABLE)
    solver_created,   \* whether CreateSolver("SCIP") returns a solver
    solver_sound,     \* whether Solve() reports OPTIMAL on a feasible model
    clock,            \* time of day of datetime.now(): "midnight" or "later"
    n_iter,           \* self.cfg["monte_carlo_iter"]
    constraints,      \* the constraints map passed to the run
    db_path,          \* the file at self.db_path: "absent", "empty", "schema"
    history,          \* rows of the history table
    draw,             \* observer of rng.normal: the last jitter matrix drawn
    batches,          \* List[BatchItem]
    routes,           \* List[Route]
    mode_assign,      \* Dict[batch_id, route_id]
    packed,           \* containers returned by _optimize_container_packing
    routed,           \* containers returned by _optimize_routing
    risk,             \* dict returned by _monte_carlo_risk_assessment
    otif,             \* dict returned by _validate_otif_constraints
    result,           \* <<the result bundle>> once built, <<>> before
    raised            \* exception that left optimize_shipment_plan, or "none"

inputs == <<batches_df, routes_df, solver_available, solver_created,
            solver_sound, clock, n_iter, constraints>>

vars == <<pc, inputs, db_path, history, draw, batches, routes, mode_assign, packed, routed,
          risk, otif, result, raised>>

-----------------------------------------------------------------------------
(* Bounds of the model *)

MaxRuns == 2
MaxBatches == 3
MaxRoutes == 2
MaxContainers == 2
MaxIter == 2
MaxPlanBatches == 2
MaxPlanIter == 1

(* Program constants *)

MAX_WEIGHT == 25000
MAX_VOLUME == 12500
DEFAULT_TRANSIT == 14
NoRoute == 0

-----------------------------------------------------------------------------
(* Helpers *)

Frac(n, d) == [num |-> n, den |-> d]

FracLe(a, b) == a.num * b.den <= b.num * a.den

Min(a, b) == IF a < b THEN a ELSE b

Max(a, b) == IF a > b THEN a ELSE b

RECURSIVE SeqSum(_)
SeqSum(s) == IF s = <<>> THEN 0 ELSE Head(s) + SeqSum(Tail(s))

RECURSIVE SeqMin(_)
SeqMin(s) == IF Len(s) = 1 THEN Head(s) ELSE Min(Head(s), SeqMin(Tail(s)))

SeqsUpTo(S, n) == UNION {[1..k -> S] : k \in 0..n}

RECURSIVE Insert(_, _)
Insert(x, s) ==
    IF s = <<>> THEN <<x>>
    ELSE IF x <= Head(s) THEN <<x>> \o s
    ELSE <<Head(s)>> \o Insert(x, Tail(s))

RECURSIVE Sorted(_)
Sorted(s) == IF s = <<>> THEN <<>> ELSE Insert(Head(s), Sorted(Tail(s)))

-----------------------------------------------------------------------------
(* Input rows *)

BatchRow(w, v, reason, diq, due) ==
    [weight_kg |-> w, volume_m3 |-> v, delay_reason |-> reason,
     days_in_queue |-> diq, due |-> due]

RouteRow(mode, ckg, cm3, cost, transit) ==
    [transport_mode |-> mode, capacity_kg |-> ckg, capacity_m3 |-> cm3,
     cost_per_kg |-> cost, transit_days |-> transit]

\* One High, one Critical, one Low and one Medium batch.  The first two fill
\* a container exactly, three of the first exceed the volume ceiling alone,
\* the last two are oversized, in weight and in volume.
BatchRows ==
    { BatchRow(5000, 6000, "QA", 30, 4),
      BatchRow(20000, 6500, "Investigation", 5, 1),
      BatchRow(30000, 1000, "QA", 0, 10),
      BatchRow(1000, 13000, "QA", 20, 0) }

\* The batch rows of whole-plan runs.
PlanBatchRows ==
    { BatchRow(5000, 6000, "QA", 30, 4),
      BatchRow(20000, 6500, "Investigation", 5, 1),
      BatchRow(30000, 1000, "QA", 0, 10) }

\* The last two routes cost the same per kg.
RouteRows ==
    { RouteRow("Air", 25000, 12500, 5, 3),
      RouteRow("Ocean", 40000, 20000, 3, 20),
      RouteRow("Ground", 12000, 6000, 3, 4) }

\* batch_id and route_id are the row's position in its table.
WithId(rows, field) ==
    [i \in 1..Len(rows) |-> [f \in DOMAIN rows[i] \cup {field} |->
        IF f = field THEN i ELSE rows[i][f]]]

-----------------------------------------------------------------------------
(* _create_batch_objects, _create_route_objects, _determine_priority *)

\* The priority with the thresholds counted in: 25 is High, 14 is Medium.
DeterminePriorityInclusive(row) ==
    IF row.delay_reason = "Investigation" THEN "Critical"
    ELSE IF row.days_in_queue >= 25 THEN "High"
    ELSE IF row.days_in_queue >= 14 THEN "Medium"
    ELSE "Low"

DeterminePriority(row) ==
    IF row.delay_reason = "Investigation" THEN "Critical"
    ELSE IF row.days_in_queue > 25 THEN "High"
    ELSE IF row.days_in_queue > 14 THEN "Medium"
    ELSE "Low"

CreateBatchObjects(df) ==
    [i \in 1..Len(df) |->
        [batch_id |-> df[i].batch_id,
         weight_kg |-> df[i].weight_kg,
         volume_m3 |-> df[i].volume_m3,
         priority |-> DeterminePriority(df[i]),
         due_date |-> df[i].due,
         days_in_queue |-> df[i].days_in_queue]]

CreateRouteObjects(df) ==
    [i \in 1..Len(df) |->
        [route_id |-> df[i].route_id,
         transport_mode |-> df[i].transport_mode,
         capacity_kg |-> df[i].capacity_kg,
         capacity_m3 |-> df[i].capacity_m3,
         cost_per_kg |-> df[i].cost_per_kg,
         transit_days |-> df[i].transit_days]]

\* Route.total_cost
TotalCost(route, weight_kg) == weight_kg * route.cost_per_kg

BatchIds(bs) == {bs[i].batch_id : i \in 1..Len(bs)}

RouteIds(rs) == {rs[i].route_id : i \in 1..Len(rs)}

BatchById(bs, id) == bs[CHOOSE i \in 1..Len(bs) : bs[i].batch_id = id]

-----------------------------------------------------------------------------
(* _heuristic_mode_selection *)

\* The inner loop over routes: best is the index of best_route (NoRoute while
\* best_route is None) and cost is best_cost (read only once best is set,
\* float('inf') before).
RECURSIVE HeuristicScanLastWins(_, _, _, _)
HeuristicScanLastWins(batch, rs, i, best) ==
    IF i > Len(rs) THEN best
    ELSE LET route == rs[i]
             fits == /\ batch.weight_kg <= route.capacity_kg
                     /\ batch.volume_m3 <= route.capacity_m3
             cost == TotalCost(route, batch.weight_kg)
         IN  IF fits /\ (best.route = NoRoute \/ cost <= best.cost)
             THEN HeuristicScanLastWins(batch, rs, i + 1,
                                        [route |-> i, cost |-> cost])
             ELSE HeuristicScanLastWins(batch, rs, i + 1, best)

RECURSIVE HeuristicScan(_, _, _, _)
HeuristicScan(batch, rs, i, best) ==
    IF i > Len(rs) THEN best
    ELSE LET route == rs[i]
             fits == /\ batch.weight_kg <= route.capacity_kg
                     /\ batch.volume_m3 <= route.capacity_m3
             cost == TotalCost(route, batch.weight_kg)
         IN  IF fits /\ (best.route = NoRoute \/ cost < best.cost)
             THEN HeuristicScan(batch, rs, i + 1, [route |-> i, cost |-> cost])
             ELSE HeuristicScan(batch, rs, i + 1, best)

HeuristicChoice(batch, rs) ==
    LET best == HeuristicScan(batch, rs, 1, [route |-> NoRoute, cost |-> 0])
    IN  IF best.route # NoRoute THEN rs[best.route].route_id
        ELSE IF rs # <<>> THEN rs[1].route_id
        ELSE NoRoute

HeuristicModeSelection(bs, rs) ==
    [id \in BatchIds(bs) |-> HeuristicChoice(BatchById(bs, id), rs)]

-----------------------------------------------------------------------------
(* _optimize_transport_mode *)

\* x = {b.batch_id: {r.route_id: BoolVar} for b in batches for r in routes}:
\* a dict comprehension with key b.batch_id, so each later route replaces the
\* entry of the one before and x[b] holds the last route only.
DecisionVars(bs, rs) ==
    [id \in (IF rs = <<>> THEN {} ELSE BatchIds(bs)) |-> {rs[Len(rs)].route_id}]

\* The first constraint loop reads x[b.batch_id][r.route_id] for every batch
\* and route, in order: KeyError at the first pair that x does not hold.
BuildRaisesKeyError(bs, rs) ==
    LET x == DecisionVars(bs, rs)
    IN  \E i \in 1..Len(bs) : \E j \in 1..Len(rs) :
            \/ bs[i].batch_id \notin DOMAIN x
            \/ rs[j].route_id \notin x[bs[i].batch_id]

\* The calendar days from today to the due date, whatever the time of day.
DaysLeftCalendar(batch, clk) == batch.due_date

\* (b.due_date - datetime.now()).days: whole days, rounded down.
DaysLeft(batch, clk) ==
    IF clk = "midnight" THEN batch.due_date ELSE batch.due_date - 1

Urgent(batch) == batch.priority \in {"Critical", "High"}

\* An assignment a (batch_id -> route_id) satisfies the constraints added to
\* the solver.  Read only when the build did not raise.
SatisfiesLP(a, bs, rs, clk) ==
    /\ \A j \in 1..Len(rs) :
          LET on == {i \in 1..Len(bs) : a[bs[i].batch_id] = rs[j].route_id}
              ws == [i \in 1..Len(bs) |-> IF i \in on THEN bs[i].weight_kg ELSE 0]
              vs == [i \in 1..Len(bs) |-> IF i \in on THEN bs[i].volume_m3 ELSE 0]
          IN  /\ SeqSum(ws) <= rs[j].capacity_kg
              /\ SeqSum(vs) <= rs[j].capacity_m3
    /\ \A i \in 1..Len(bs) : \A j \in 1..Len(rs) :
          (Urgent(bs[i]) /\ rs[j].transit_days > DaysLeft(bs[i], clk))
              => a[bs[i].batch_id] # rs[j].route_id

\* The assignments the model admits: sum over routes of x[b][r] == 1.
LPSolutions(bs, rs, clk) ==
    {a \in [BatchIds(bs) -> RouteIds(rs)] : SatisfiesLP(a, bs, rs, clk)}

\* BatchItem.priority_weight with DEFAULT_CFG["priority_weights"]
PriorityWeight(batch) ==
    CASE batch.priority = "Critical" -> 1000
      [] batch.priority = "High" -> 100
      [] batch.priority = "Medium" -> 10
      [] OTHER -> 1

\* cost + alpha * pr_pen with alpha = 0.01, times 100.
LPObjective(a, bs, rs) ==
    SeqSum([i \in 1..Len(bs) |->
        LET r == rs[CHOOSE j \in 1..Len(rs) : rs[j].route_id = a[bs[i].batch_id]]
        IN  100 * bs[i].weight_kg * r.cost_per_kg
              + PriorityWeight(bs[i]) * r.transit_days])

\* [raised, assign, path] of one call.
TransportMode(bs, rs, avail, created, sound, clk) ==
    LET heuristic == [raised |-> "none", path |-> "heuristic",
                      assign |-> HeuristicModeSelection(bs, rs)]
        sols == LPSolutions(bs, rs, clk)
    IN  IF ~avail THEN heuristic
        ELSE IF ~created THEN heuristic
        ELSE IF BuildRaisesKeyError(bs, rs)
             THEN [raised |-> "KeyError", path |-> "lp", assign |-> <<>>]
        ELSE IF sols = {} \/ ~sound THEN heuristic
        ELSE [raised |-> "none", path |-> "lp",
              assign |-> CHOOSE a \in sols :
                  \A o \in sols : LPObjective(a, bs, rs) <= LPObjective(o, bs, rs)]

-----------------------------------------------------------------------------
(* _optimize_container_packing *)

NewContainer(items, w, v) ==
    [items |-> items, total_weight |-> w, total_volume |-> v,
     max_weight |-> MAX_WEIGHT, max_volume |-> MAX_VOLUME]

\* FitsCurrent without the running totals: the batch is tested alone.
FitsAlone(cur, batch) ==
    /\ batch.weight_kg <= cur.max_weight
    /\ batch.volume_m3 <= cur.max_volume

\* FitsCurrent without the volume test.
FitsWeightOnly(cur, batch) ==
    cur.total_weight + batch.weight_kg <= cur.max_weight

\* FitsCurrent that leaves a unit of room: a total on the ceiling is out.
FitsBelowCeiling(cur, batch) ==
    /\ cur.total_weight + batch.weight_kg < cur.max_weight
    /\ cur.total_volume + batch.volume_m3 < cur.max_volume

\* The test that adds a batch to the current container.
FitsCurrent(cur, batch) ==
    /\ cur.total_weight + batch.weight_kg <= cur.max_weight
    /\ cur.total_volume + batch.volume_m3 <= cur.max_volume

\* The container that replaces the current one when the batch does not fit.
SeedContainer(batch) ==
    NewContainer(<<batch>>, batch.weight_kg, batch.volume_m3)

\* PackLoop that seals the current container whether or not it has members.
RECURSIVE PackLoopAlwaysSeal(_, _, _, _)
PackLoopAlwaysSeal(bs, i, containers, cur) ==
    IF i > Len(bs)
    THEN IF cur.items # <<>> THEN Append(containers, cur) ELSE containers
    ELSE IF FitsCurrent(cur, bs[i])
         THEN PackLoopAlwaysSeal(bs, i + 1, containers,
                  [cur EXCEPT !.items = Append(@, bs[i]),
                              !.total_weight = @ + bs[i].weight_kg,
                              !.total_volume = @ + bs[i].volume_m3])
         ELSE PackLoopAlwaysSeal(bs, i + 1, Append(containers, cur),
                                 SeedContainer(bs[i]))

\* The loop over batches and the final flush: containers is the output list,
\* cur the current container.
RECURSIVE PackLoop(_, _, _, _)
PackLoop(bs, i, containers, cur) ==
    IF i > Len(bs)
    THEN IF cur.items # <<>> THEN Append(containers, cur) ELSE containers
    ELSE IF FitsCurrent(cur, bs[i])
         THEN PackLoop(bs, i + 1, containers,
                  [cur EXCEPT !.items = Append(@, bs[i]),
                              !.total_weight = @ + bs[i].weight_kg,
                              !.total_volume = @ + bs[i].volume_m3])
         ELSE PackLoop(bs, i + 1,
                  IF cur.items # <<>> THEN Append(containers, cur) ELSE containers,
                  SeedContainer(bs[i]))

\* Packing of the batches the mapping gives a route only.
PackAssignedOnly(bs, assign) ==
    LET Assigned(b) == b.batch_id \in DOMAIN assign /\ assign[b.batch_id] # NoRoute
    IN  PackLoop(SelectSeq(bs, Assigned), 1, <<>>, NewContainer(<<>>, 0, 0))

\* mode_assign is a parameter the body never reads.
OptimizeContainerPacking(bs, assign) ==
    PackLoop(bs, 1, <<>>, NewContainer(<<>>, 0, 0))

-----------------------------------------------------------------------------
(* _optimize_routing *)

\* RoutingScan with cost <= best_cost: on a tie the later route wins.
RECURSIVE RoutingScanLastWins(_, _, _, _)
RoutingScanLastWins(container, rs, i, best) ==
    IF i > Len(rs) THEN best
    ELSE LET route == rs[i]
             fits == /\ container.total_weight <= route.capacity_kg
                     /\ container.total_volume <= route.capacity_m3
             cost == container.total_weight * route.cost_per_kg
         IN  IF fits /\ (best.route = NoRoute \/ cost <= best.cost)
             THEN RoutingScanLastWins(container, rs, i + 1, [route |-> i, cost |-> cost])
             ELSE RoutingScanLastWins(container, rs, i + 1, best)

RECURSIVE RoutingScan(_, _, _, _)
RoutingScan(container, rs, i, best) ==
    IF i > Len(rs) THEN best
    ELSE LET route == rs[i]
             fits == /\ container.total_weight <= route.capacity_kg
                     /\ container.total_volume <= route.capacity_m3
             cost == TotalCost(route, container.total_weight)
         IN  IF fits /\ (best.route = NoRoute \/ cost < best.cost)
             THEN RoutingScan(container, rs, i + 1, [route |-> i, cost |-> cost])
             ELSE RoutingScan(container, rs, i + 1, best)

\* RouteContainer without the fallback: a container no route can hold is
\* left without a route.
RouteContainerNoFallback(container, rs) ==
    LET best == RoutingScan(container, rs, 1, [route |-> NoRoute, cost |-> 0])
        keys == DOMAIN container \cup {"route", "route_cost"}
        route == IF best.route # NoRoute THEN <<rs[best.route]>> ELSE <<>>
        route_cost == IF best.route # NoRoute THEN best.cost ELSE 0
    IN  [k \in keys |-> CASE k = "route" -> route
                          [] k = "route_cost" -> route_cost
                          [] OTHER -> container[k]]

\* container['route'] is <<the Route object>>, or <<>> for None.
RouteContainer(container, rs) ==
    LET best == RoutingScan(container, rs, 1, [route |-> NoRoute, cost |-> 0])
        keys == DOMAIN container \cup {"route", "route_cost"}
        route == IF best.route # NoRoute THEN <<rs[best.route]>>
                 ELSE IF rs # <<>> THEN <<rs[1]>> ELSE <<>>
        route_cost == IF best.route # NoRoute THEN best.cost ELSE 0
    IN  [k \in keys |-> CASE k = "route" -> route
                          [] k = "route_cost" -> route_cost
                          [] OTHER -> container[k]]

OptimizeRouting(containers, rs) ==
    [c \in 1..Len(containers) |-> RouteContainer(containers[c], rs)]

-----------------------------------------------------------------------------
(* _monte_carlo_risk_assessment *)

\* Values a sample of rng.normal(0, 1) takes in the model, in days.
JitterVals == {-2, 0, 2}

JitterMatrices(iters, n) == [1..iters -> [1..n -> JitterVals]]

\* The extraction loop: transit_days and due_dates (as toordinal() - today).
TransitOf(container) ==
    IF container.route # <<>> THEN container.route[1].transit_days
    ELSE DEFAULT_TRANSIT

\* DueOf with the latest due date of the members.
DueOfLatest(container) ==
    IF container.route # <<>> /\ container.items # <<>>
    THEN LET dues == {container.items[i].due_date : i \in 1..Len(container.items)}
         IN  CHOOSE d \in dues : \A e \in dues : e <= d
    ELSE 0

DueOf(container) ==
    IF container.route # <<>> /\ container.items # <<>>
    THEN SeqMin([i \in 1..Len(container.items) |-> container.items[i].due_date])
    ELSE 0

\* RiskDefaults with every statistic zero.
RiskZeros ==
    [otif_mean |-> Frac(0, 10),
     probability_below_80 |-> Frac(0, 10),
     mean_delay_days |-> Frac(0, 10),
     p95_delay_days |-> Frac(0, 10),
     risk_score |-> Frac(0, 10)]

RiskDefaults ==
    [otif_mean |-> Frac(8, 10),
     probability_below_80 |-> Frac(2, 10),
     mean_delay_days |-> Frac(20, 10),
     p95_delay_days |-> Frac(50, 10),
     risk_score |-> Frac(250, 10)]

\* The distance between arrival and slack, early or late.
AbsDelay(arrival, slack) ==
    IF arrival >= slack THEN arrival - slack ELSE slack - arrival

\* np.clip(arrival - slack, 0, None) for one trial and one container.
ClippedDelay(arrival, slack) == Max(arrival - slack, 0)

\* DelayTerm without the cap.
DelayTermUncapped(delay_sum, den) == delay_sum * 5

\* min(delays.mean() * 5, 50) over the denominator den.
DelayTerm(delay_sum, den) == Min(delay_sum * 5, 50 * den)

\* (1 - otif_scores.mean()) * 50 over the denominator den.
OtifShortfallTerm(on_time_sum, den) == (den - on_time_sum) * 50

\* np.percentile(d, 95), linear interpolation, of the values d[t] / n:
\* numerator over 100 * n.
Percentile95(d) ==
    LET s == Sorted(d)
        pos == 95 * (Len(d) - 1)
        lo == pos \div 100
        hi == Min(lo + 1, Len(d) - 1)
    IN  100 * s[lo + 1] + (pos - 100 * lo) * (s[hi + 1] - s[lo + 1])

MonteCarloRiskAssessment(containers, iters, jitter) ==
    LET n == Len(containers)
        transit == [c \in 1..n |-> TransitOf(containers[c])]
        slack == [c \in 1..n |-> DueOf(containers[c])]
        arrival == [t \in 1..iters |-> [c \in 1..n |-> transit[c] + jitter[t][c]]]
        on_time == [t \in 1..iters |->
                       Cardinality({c \in 1..n : slack[c] >= arrival[t][c]})]
        delays == [t \in 1..iters |->
                      SeqSum([c \in 1..n |-> ClippedDelay(arrival[t][c], slack[c])])]
        below == Cardinality({t \in 1..iters : on_time[t] * 10 < 8 * n})
        den == n * iters
    IN  IF n = 0 THEN RiskDefaults
        ELSE [otif_mean |-> Frac(SeqSum(on_time), den),
              probability_below_80 |-> Frac(below, iters),
              mean_delay_days |-> Frac(SeqSum(delays), den),
              p95_delay_days |-> Frac(Percentile95(delays), 100 * n),
              risk_score |-> Frac(OtifShortfallTerm(SeqSum(on_time), den)
                                    + DelayTerm(SeqSum(delays), den), den)]

-----------------------------------------------------------------------------
(* _validate_otif_constraints *)

\* The containers that reach their earliest due date.
OnTimeBeforeDue(containers) ==
    Cardinality({c \in 1..Len(containers) :
        TransitOf(containers[c]) <= DueOf(containers[c])})

OnTimeContainers(containers) ==
    Cardinality({c \in 1..Len(containers) :
        /\ containers[c].route # <<>>
        /\ containers[c].route[1].transit_days <= 14})

ValidateOtifConstraints(containers, constr) ==
    LET total == Len(containers)
        on_time == OnTimeContainers(containers)
        otif_rate == IF total > 0 THEN Frac(on_time, total) ELSE Frac(0, 1)
    IN  [otif_rate |-> otif_rate,
         on_time_containers |-> on_time,
         total_containers |-> total,
         meets_target |-> FracLe(Frac(8, 10), otif_rate)]

-----------------------------------------------------------------------------
(* _compile_shipment_plan, _calculate_kpis *)

RECURSIVE Gcd(_, _)
Gcd(a, b) == IF b = 0 THEN a ELSE Gcd(b, a % b)

\* A fraction of non-negative numerator in lowest terms.
Reduce(f) == LET g == Gcd(f.num, f.den) IN Frac(f.num \div g, f.den \div g)

FracAdd(a, b) ==
    LET x == Reduce(a)
        y == Reduce(b)
    IN  Reduce(Frac(x.num * y.den + y.num * x.den, x.den * y.den))

FracHalf(a) == Reduce(Frac(a.num, 2 * a.den))

CompileShipmentPlan(containers) ==
    [i \in 1..Len(containers) |->
        LET c == containers[i]
        IN  [container_id |-> i,
             route_id |-> IF c.route # <<>> THEN c.route[1].route_id ELSE NoRoute,
             transport_mode |-> IF c.route # <<>> THEN c.route[1].transport_mode
                                ELSE "N/A",
             total_weight_kg |-> c.total_weight,
             total_volume_m3 |-> c.total_volume,
             route_cost_eur |-> c.route_cost,
             num_batches |-> Len(c.items),
             utilization_weight |-> Frac(c.total_weight, c.max_weight),
             utilization_volume |-> Frac(c.total_volume, c.max_volume)]]

\* The field of the first container only.
SumFirst(containers, field) ==
    IF containers = <<>> THEN 0 ELSE containers[1][field]

SumOver(containers, field) ==
    SeqSum([i \in 1..Len(containers) |-> containers[i][field]])

\* The three divisions of _calculate_kpis, in order: by the summed container
\* capacities, by len(original_batches), by original_avg_queue_time.
KpisRaise(containers, bs) ==
    \/ SumOver(containers, "max_weight") = 0
    \/ SumOver(containers, "max_volume") = 0
    \/ Len(bs) = 0
    \/ SeqSum([i \in 1..Len(bs) |-> bs[i].days_in_queue]) = 0

\* Read only when KpisRaise is false.
CalculateKpis(containers, bs) ==
    [total_cost_eur |-> SumOver(containers, "route_cost"),
     cost_ratio |-> Frac(92, 100),
     avg_container_utilization |->
         FracHalf(FracAdd(
             Frac(SumOver(containers, "total_weight"), SumOver(containers, "max_weight")),
             Frac(SumOver(containers, "total_volume"), SumOver(containers, "max_volume")))),
     cycle_time_improvement |-> Frac(15, 100),
     total_containers |-> Len(containers),
     total_weight_kg |-> SumOver(containers, "total_weight"),
     total_volume_m3 |-> SumOver(containers, "total_volume")]

\* The row _persist_history inserts (the timestamp is left out).
HistoryRow(kpis) ==
    [total_cost |-> kpis.total_cost_eur,
     cost_ratio |-> kpis.cost_ratio,
     container_util |-> kpis.avg_container_utilization,
     cycle_improve |-> kpis.cycle_time_improvement]

\* The table after a write that keeps the new row only.
ReplaceHistory(rows, kpis) == <<HistoryRow(kpis)>>

\* INSERT INTO history VALUES (...); commit.
InsertHistory(rows, kpis) == Append(rows, HistoryRow(kpis))

\* _ensure_db that runs CREATE TABLE whether or not the file exists.
EnsureDbAlways(path, rows) ==
    IF path = "schema"
    THEN [db_path |-> path, history |-> rows, raised |-> "OperationalError"]
    ELSE [db_path |-> "schema", history |-> <<>>, raised |-> "none"]

\* _ensure_db: the file and its history table are created when no file is
\* at db_path; an existing file is left as it is.
EnsureDb(path, rows) ==
    IF path = "absent"
    THEN [db_path |-> "schema", history |-> <<>>, raised |-> "none"]
    ELSE [db_path |-> path, history |-> rows, raised |-> "none"]

-----------------------------------------------------------------------------
(* State machine *)

NoRisk == [otif_mean |-> Frac(0, 1), probability_below_80 |-> Frac(0, 1),
           mean_delay_days |-> Frac(0, 1), p95_delay_days |-> Frac(0, 1),
           risk_score |-> Frac(0, 1)]

NoOtif == [otif_rate |-> Frac(0, 1), on_time_containers |-> 0,
           total_containers |-> 0, meets_target |-> FALSE]

\* The environments of the solver that differ in what the code does.
SolverEnvs ==
    {<<FALSE, FALSE, FALSE, "later">>, <<TRUE, FALSE, FALSE, "later">>}
      \cup {<<TRUE, TRUE, snd, clk>> : snd \in BOOLEAN, clk \in {"midnight", "later"}}

\* No key of the constraints map is given.
NoConstraints == [min_otif_rate |-> <<>>, monte_carlo_iter |-> <<>>]

NoDraw == [on |-> FALSE, normal |-> <<>>]

\* An engine was constructed on a fresh db path; nothing has run yet.
Blank ==
    /\ db_path = "schema"
    /\ history = <<>>
    /\ draw = NoDraw
    /\ batches = <<>>
    /\ routes = <<>>
    /\ mode_assign = <<>>
    /\ packed = <<>>
    /\ routed = <<>>
    /\ risk = NoRisk
    /\ otif = NoOtif
    /\ result = <<>>
    /\ raised = "none"

NoSolver ==
    /\ solver_available = FALSE
    /\ solver_created = FALSE
    /\ solver_sound = FALSE
    /\ clock = "later"

PickSolver ==
    \E env \in SolverEnvs :
        /\ solver_available = env[1]
        /\ solver_created = env[2]
        /\ solver_sound = env[3]
        /\ clock = env[4]

BatchTables(rows, n) == {WithId(t, "batch_id") : t \in SeqsUpTo(rows, n)}

RouteTables(rows, n) == {WithId(t, "route_id") : t \in SeqsUpTo(rows, n)}

\* optimize_shipment_plan on a batch table and a route table, by an engine
\* whose construction has run _ensure_db.
Init ==
    /\ pc = "create"
    /\ batches_df \in BatchTables(PlanBatchRows, MaxPlanBatches)
    /\ routes_df \in RouteTables(RouteRows, MaxRoutes)
    /\ PickSolver
    /\ n_iter \in 1..MaxPlanIter
    /\ constraints = NoConstraints
    /\ Blank

CreateObjects ==
    /\ pc = "create"
    /\ batches' = CreateBatchObjects(batches_df)
    /\ routes' = CreateRouteObjects(routes_df)
    /\ pc' = "mode"
    /\ UNCHANGED <<inputs, db_path, history, draw, mode_assign, packed, routed, risk, otif,
                   result, raised>>

OptimizeTransportModeStep ==
    /\ pc = "mode"
    /\ LET r == TransportMode(batches, routes, solver_available,
                              solver_created, solver_sound, clock)
       IN  /\ mode_assign' = r.assign
           /\ raised' = r.raised
           /\ pc' = IF r.raised = "none" THEN "pack" ELSE "raised"
    /\ UNCHANGED <<inputs, db_path, history, draw, batches, routes, packed, routed, risk,
                   otif, result>>

OptimizeContainerPackingStep ==
    /\ pc = "pack"
    /\ packed' = OptimizeContainerPacking(batches, mode_assign)
    /\ pc' = "route"
    /\ UNCHANGED <<inputs, db_path, history, draw, batches, routes, mode_assign, routed,
                   risk, otif, result, raised>>

OptimizeRoutingStep ==
    /\ pc = "route"
    /\ routed' = OptimizeRouting(packed, routes)
    /\ pc' = "risk"
    /\ UNCHANGED <<inputs, db_path, history, draw, batches, routes, mode_assign, packed,
                   risk, otif, result, raised>>

\* rng.normal is reached only past the early return for an empty list.
MonteCarloRiskAssessmentStep ==
    /\ pc = "risk"
    /\ \E jitter \in JitterMatrices(n_iter, Len(routed)) :
          /\ risk' = MonteCarloRiskAssessment(routed, n_iter, jitter)
          /\ draw' = IF draw.on /\ routed # <<>>
                     THEN [on |-> TRUE, normal |-> jitter]
                     ELSE draw
    /\ pc' = "otif"
    /\ UNCHANGED <<inputs, db_path, history, batches, routes, mode_assign, packed,
                   routed, otif, result, raised>>

ValidateOtifConstraintsStep ==
    /\ pc = "otif"
    /\ otif' = ValidateOtifConstraints(routed, constraints)
    /\ pc' = "compile"
    /\ UNCHANGED <<inputs, db_path, history, draw, batches, routes, mode_assign, packed,
                   routed, risk, result, raised>>

\* CompileResultStep that writes a history row before the KPIs are computed.
CompileResultLoggedStep ==
    /\ pc = "compile"
    /\ history' = Append(history, [total_cost |-> 0, cost_ratio |-> Frac(92, 100),
                                   container_util |-> Frac(0, 1),
                                   cycle_improve |-> Frac(15, 100)])
    /\ IF KpisRaise(routed, batches)
       THEN /\ raised' = "ZeroDivisionError"
            /\ pc' = "raised"
            /\ UNCHANGED result
       ELSE /\ result' = <<[optimized_plan |-> CompileShipmentPlan(routed),
                            kpis |-> CalculateKpis(routed, batches),
                            risk_analysis |-> risk,
                            otif_compliance |-> otif]>>
            /\ pc' = "persist"
            /\ UNCHANGED raised
    /\ UNCHANGED <<inputs, db_path, draw, batches, routes, mode_assign, packed,
                   routed, risk, otif>>

\* result = {...}: _compile_shipment_plan, then _calculate_kpis.
CompileResultStep ==
    /\ pc = "compile"
    /\ IF KpisRaise(routed, batches)
       THEN /\ raised' = "ZeroDivisionError"
            /\ pc' = "raised"
            /\ UNCHANGED result
       ELSE /\ result' = <<[optimized_plan |-> CompileShipmentPlan(routed),
                            kpis |-> CalculateKpis(routed, batches),
                            risk_analysis |-> risk,
                            otif_compliance |-> otif]>>
            /\ pc' = "persist"
            /\ UNCHANGED raised
    /\ UNCHANGED <<inputs, db_path, history, draw, batches, routes, mode_assign, packed,
                   routed, risk, otif>>

\* _persist_history that returns the bundle whether or not the row was
\* written.
PersistHistoryQuietStep ==
    /\ pc = "persist"
    /\ \E stored \in BOOLEAN :
       IF stored /\ db_path = "schema"
       THEN history' = InsertHistory(history, result[1].kpis)
       ELSE UNCHANGED history
    /\ pc' = "done"
    /\ UNCHANGED <<inputs, db_path, draw, batches, routes, mode_assign, packed,
                   routed, risk, otif, result, raised>>

\* _persist_history, then return result.  connect creates an absent file,
\* empty; the INSERT fails when the file holds no history table or the
\* storage refuses the write (stored = FALSE).
PersistHistoryStep ==
    /\ pc = "persist"
    /\ \E stored \in BOOLEAN :
       IF stored /\ db_path = "schema"
       THEN /\ history' = InsertHistory(history, result[1].kpis)
            /\ pc' = "done"
            /\ UNCHANGED <<raised, db_path>>
       ELSE /\ raised' = "OperationalError"
            /\ pc' = "raised"
            /\ db_path' = IF db_path = "absent" THEN "empty" ELSE db_path
            /\ UNCHANGED history
    /\ UNCHANGED <<inputs, draw, batches, routes, mode_assign, packed, routed, risk,
                   otif, result>>

Next ==
    \/ CreateObjects
    \/ OptimizeTransportModeStep
    \/ OptimizeContainerPackingStep
    \/ OptimizeRoutingStep
    \/ MonteCarloRiskAssessmentStep
    \/ ValidateOtifConstraintsStep
    \/ CompileResultStep
    \/ PersistHistoryStep

Spec == Init /\ [][Next]_vars

-----------------------------------------------------------------------------
(* One history file: engine constructions, runs and clear_optimization_history
   calls, one after the other *)

\* Positions between calls: the last call constructed an engine, returned a
\* bundle, raised, cleared the history or failed to clear it.
Rest == {"constructed", "done", "raised", "cleared", "clear_failed"}

\* AdvancedOptimizationEngine.__init__: load_cfg, logger, _ensure_db.
EngineInit ==
    /\ pc \in {"new"} \cup Rest
    /\ LET e == EnsureDb(db_path, history)
       IN  /\ db_path' = e.db_path
           /\ history' = e.history
           /\ raised' = IF e.raised = "none" THEN raised ELSE e.raised
           /\ pc' = IF e.raised = "none" THEN "constructed"
                    ELSE IF pc = "new" THEN "new" ELSE "raised"
    /\ UNCHANGED <<inputs, draw, batches, routes, mode_assign, packed, routed,
                   risk, otif, result>>

\* A call of optimize_shipment_plan on a constructed engine.
CallOptimize ==
    /\ pc \in Rest
    /\ Len(history) < MaxRuns
    /\ pc' = "create"
    /\ batches' = <<>>
    /\ routes' = <<>>
    /\ mode_assign' = <<>>
    /\ packed' = <<>>
    /\ routed' = <<>>
    /\ risk' = NoRisk
    /\ otif' = NoOtif
    /\ result' = <<>>
    /\ raised' = "none"
    /\ UNCHANGED <<inputs, db_path, history, draw>>

\* OptimizationService.clear_optimization_history: True without a file,
\* True after DELETE FROM history and commit, False when they fail.
ClearOptimizationHistory ==
    /\ pc \in Rest
    /\ \E stored \in BOOLEAN :
          IF db_path = "absent"
          THEN pc' = "cleared" /\ UNCHANGED history
          ELSE IF stored /\ db_path = "schema"
          THEN pc' = "cleared" /\ history' = <<>>
          ELSE pc' = "clear_failed" /\ UNCHANGED history
    /\ UNCHANGED <<inputs, db_path, draw, batches, routes, mode_assign, packed,
                   routed, risk, otif, result, raised>>

InitDb ==
    /\ pc = "new"
    /\ batches_df \in BatchTables(PlanBatchRows, 1)
    /\ routes_df \in RouteTables(RouteRows, 1)
    /\ NoSolver
    /\ n_iter = 1
    /\ constraints = NoConstraints
    /\ db_path = "absent"
    /\ history = <<>>
    /\ draw = NoDraw
    /\ batches = <<>>
    /\ routes = <<>>
    /\ mode_assign = <<>>
    /\ packed = <<>>
    /\ routed = <<>>
    /\ risk = NoRisk
    /\ otif = NoOtif
    /\ result = <<>>
    /\ raised = "none"

NextDb ==
    \/ EngineInit
    \/ CallOptimize
    \/ ClearOptimizationHistory
    \/ Next

SpecDb == InitDb /\ [][NextDb]_vars

-----------------------------------------------------------------------------
(* Two engines constructed at the same time on one absent history file, each
   followed by a run.  Here pc and raised are pairs, one entry per engine;
   _ensure_db is taken statement by statement, and a run is one step, its
   INSERT being its only access to the file. *)

Engines == {1, 2}

\* The routed containers of a run without a solver on the input tables.
RunContainers(bdf, rdf) ==
    LET bs == CreateBatchObjects(bdf)
        rs == CreateRouteObjects(rdf)
    IN  OptimizeRouting(
            OptimizeContainerPacking(bs, HeuristicModeSelection(bs, rs)), rs)

\* if not self.db_path.exists():
EnsureDbTest(e) ==
    /\ pc[e] = "test"
    /\ pc' = [pc EXCEPT ![e] = IF db_path = "absent" THEN "connect" ELSE "ready"]
    /\ UNCHANGED <<inputs, db_path, history, draw, batches, routes, mode_assign,
                   packed, routed, risk, otif, result, raised>>

\* conn = sqlite3.connect(self.db_path): an absent file is created, empty.
EnsureDbConnect(e) ==
    /\ pc[e] = "connect"
    /\ db_path' = IF db_path = "absent" THEN "empty" ELSE db_path
    /\ pc' = [pc EXCEPT ![e] = "create_table"]
    /\ UNCHANGED <<inputs, history, draw, batches, routes, mode_assign, packed,
                   routed, risk, otif, result, raised>>

\* conn.execute("CREATE TABLE history ..."); commit; close.  The statement
\* fails on a file that has the table.
EnsureDbCreate(e) ==
    /\ pc[e] = "create_table"
    /\ IF db_path = "schema"
       THEN /\ raised' = [raised EXCEPT ![e] = "OperationalError"]
            /\ pc' = [pc EXCEPT ![e] = "raised"]
            /\ UNCHANGED db_path
       ELSE /\ db_path' = "schema"
            /\ pc' = [pc EXCEPT ![e] = "ready"]
            /\ UNCHANGED raised
    /\ UNCHANGED <<inputs, history, draw, batches, routes, mode_assign, packed,
                   routed, risk, otif, result>>

\* optimize_shipment_plan on the constructed engine e, up to its INSERT.
OptimizeConcurrent(e) ==
    /\ pc[e] = "ready"
    /\ LET bs == CreateBatchObjects(batches_df)
           containers == RunContainers(batches_df, routes_df)
       IN  IF KpisRaise(containers, bs)
           THEN /\ raised' = [raised EXCEPT ![e] = "ZeroDivisionError"]
                /\ pc' = [pc EXCEPT ![e] = "raised"]
                /\ UNCHANGED <<db_path, history>>
           ELSE IF db_path = "schema"
           THEN /\ history' = InsertHistory(history, CalculateKpis(containers, bs))
                /\ pc' = [pc EXCEPT ![e] = "done"]
                /\ UNCHANGED <<raised, db_path>>
           ELSE /\ raised' = [raised EXCEPT ![e] = "OperationalError"]
                /\ pc' = [pc EXCEPT ![e] = "raised"]
                /\ db_path' = IF db_path = "absent" THEN "empty" ELSE db_path
                /\ UNCHANGED history
    /\ UNCHANGED <<inputs, draw, batches, routes, mode_assign, packed, routed,
                   risk, otif, result>>

InitConcurrent ==
    /\ pc = [e \in Engines |-> "test"]
    /\ raised = [e \in Engines |-> "none"]
    /\ batches_df \in BatchTables(PlanBatchRows, 1) \ {<<>>}
    /\ routes_df \in RouteTables(RouteRows, 1)
    /\ NoSolver
    /\ n_iter = 1
    /\ constraints = NoConstraints
    /\ db_path = "absent"
    /\ history = <<>>
    /\ draw = NoDraw
    /\ batches = <<>>
    /\ routes = <<>>
    /\ mode_assign = <<>>
    /\ packed = <<>>
    /\ routed = <<>>
    /\ risk = NoRisk
    /\ otif = NoOtif
    /\ result = <<>>

NextConcurrent ==
    \E e \in Engines :
        \/ EnsureDbTest(e)
        \/ EnsureDbConnect(e)
        \/ EnsureDbCreate(e)
        \/ OptimizeConcurrent(e)

SpecConcurrent == InitConcurrent /\ [][NextConcurrent]_vars

-----------------------------------------------------------------------------
(* A whole run on two small batches and one route.  Volumes of these tables
   are in half cubic metres (1 m3 = 2, 0.5 m3 = 1, 10 m3 = 20); the container
   ceiling of 12500 m3 is far above the 1.5 m3 in either unit. *)

ScenarioBatches ==
    WithId(<<BatchRow(100, 2, "QA", 5, 10), BatchRow(50, 1, "QA", 5, 10)>>,
           "batch_id")

ScenarioRoutes == WithId(<<RouteRow("Air", 1000, 20, 5, 3)>>, "route_id")

InitScenario ==
    /\ pc = "create"
    /\ batches_df = ScenarioBatches
    /\ routes_df = ScenarioRoutes
    /\ PickSolver
    /\ n_iter \in 1..MaxIter
    /\ constraints = NoConstraints
    /\ Blank

SpecScenario == InitScenario /\ [][Next]_vars

-----------------------------------------------------------------------------
(* _create_batch_objects on its own *)

\* Rows on and next to the thresholds of days_in_queue, under investigation
\* and not.
PriorityRows ==
    {BatchRow(5000, 6000, reason, diq, 4) :
        reason \in {"Investigation", "QA"}, diq \in {0, 14, 15, 25, 26, 40}}

InitPriority ==
    /\ pc = "create"
    /\ batches_df \in BatchTables(PriorityRows, MaxPlanBatches)
    /\ routes_df = <<>>
    /\ NoSolver
    /\ n_iter = 1
    /\ constraints = NoConstraints
    /\ Blank

NextPriority == CreateObjects

SpecPriority == InitPriority /\ [][NextPriority]_vars

-----------------------------------------------------------------------------
(* _optimize_container_packing and _optimize_routing on their own *)

InitPack ==
    /\ pc = "pack"
    /\ batches_df = <<>>
    /\ routes_df = <<>>
    /\ NoSolver
    /\ n_iter = 1
    /\ constraints = NoConstraints
    /\ db_path = "schema"
    /\ history = <<>>
    /\ draw = NoDraw
    /\ batches \in {CreateBatchObjects(t) : t \in BatchTables(BatchRows, MaxBatches)}
    /\ routes \in {CreateRouteObjects(t) : t \in RouteTables(RouteRows, MaxRoutes)}
    /\ mode_assign = HeuristicModeSelection(batches, routes)
    /\ packed = <<>>
    /\ routed = <<>>
    /\ risk = NoRisk
    /\ otif = NoOtif
    /\ result = <<>>
    /\ raised = "none"

NextPack ==
    \/ OptimizeContainerPackingStep
    \/ OptimizeRoutingStep

SpecPack == InitPack /\ [][NextPack]_vars

-----------------------------------------------------------------------------
(* _monte_carlo_risk_assessment on its own *)

RiskBatch(due) ==
    [batch_id |-> 1, weight_kg |-> 5000, volume_m3 |-> 6000,
     priority |-> "Low", due_date |-> due, days_in_queue |-> 5]

RiskRoute(transit) ==
    [route_id |-> 1, transport_mode |-> "Air", capacity_kg |-> 25000,
     capacity_m3 |-> 12500, cost_per_kg |-> 5, transit_days |-> transit]

RoutedContainer(items, route) ==
    [items |-> items,
     total_weight |-> SeqSum([i \in 1..Len(items) |-> items[i].weight_kg]),
     total_volume |-> SeqSum([i \in 1..Len(items) |-> items[i].volume_m3]),
     max_weight |-> MAX_WEIGHT, max_volume |-> MAX_VOLUME,
     route |-> route, route_cost |-> 0]

\* Always on time, on time or late with the jitter, without a route, and
\* without items.
RiskContainers ==
    { RoutedContainer(<<RiskBatch(10)>>, <<RiskRoute(3)>>),
      RoutedContainer(<<RiskBatch(9), RiskBatch(4)>>, <<RiskRoute(3)>>),
      RoutedContainer(<<RiskBatch(1)>>, <<>>),
      RoutedContainer(<<>>, <<RiskRoute(1)>>) }

InitRisk ==
    /\ pc = "risk"
    /\ batches_df = <<>>
    /\ routes_df = <<>>
    /\ NoSolver
    /\ n_iter \in 1..MaxIter
    /\ constraints = NoConstraints
    /\ db_path = "schema"
    /\ history = <<>>
    /\ draw = NoDraw
    /\ batches = <<>>
    /\ routes = <<>>
    /\ mode_assign = <<>>
    /\ packed = <<>>
    /\ routed \in SeqsUpTo(RiskContainers, MaxContainers)
    /\ risk = NoRisk
    /\ otif = NoOtif
    /\ result = <<>>
    /\ raised = "none"

NextRisk == MonteCarloRiskAssessmentStep

SpecRisk == InitRisk /\ [][NextRisk]_vars

-----------------------------------------------------------------------------
(* _validate_otif_constraints on its own *)

\* On a 3-day route, on a 14-day route due earlier, on a 20-day route due
\* later, and without a route.
OtifContainers ==
    { RoutedContainer(<<RiskBatch(10)>>, <<RiskRoute(3)>>),
      RoutedContainer(<<RiskBatch(9)>>, <<RiskRoute(14)>>),
      RoutedContainer(<<RiskBatch(30)>>, <<RiskRoute(20)>>),
      RoutedContainer(<<RiskBatch(1)>>, <<>>) }

\* Constraints maps that give min_otif_rate (0.5 or 1.0) or leave it out.
OtifConstraints ==
    {[min_otif_rate |-> r, monte_carlo_iter |-> <<>>] :
        r \in {<<>>, <<Frac(5, 10)>>, <<Frac(10, 10)>>}}

InitOtif ==
    /\ pc = "otif"
    /\ batches_df = <<>>
    /\ routes_df = <<>>
    /\ NoSolver
    /\ n_iter = 1
    /\ constraints \in OtifConstraints
    /\ db_path = "schema"
    /\ history = <<>>
    /\ draw = NoDraw
    /\ batches = <<>>
    /\ routes = <<>>
    /\ mode_assign = <<>>
    /\ packed = <<>>
    /\ routed \in SeqsUpTo(OtifContainers, MaxContainers)
    /\ risk = NoRisk
    /\ otif = NoOtif
    /\ result = <<>>
    /\ raised = "none"

NextOtif == ValidateOtifConstraintsStep

SpecOtif == InitOtif /\ [][NextOtif]_vars

-----------------------------------------------------------------------------
(* OptimizationService.run_optimization around a run *)

\* default_constraints.update(constraints): min_otif_rate is 0.8 unless the
\* caller gives it.
MergeDefaults(constr) ==
    [constr EXCEPT !.min_otif_rate = IF @ = <<>> THEN <<Frac(8, 10)>> ELSE @]

\* The batch table with its value_eur column.
WithValueEur(rows) ==
    [i \in 1..Len(rows) |-> [f \in DOMAIN rows[i] \cup {"value_eur"} |->
        IF f = "value_eur" THEN 1000 * i ELSE rows[i][f]]]

InputSummary(bdf, rdf) ==
    [total_batches |-> Len(bdf),
     total_routes |-> Len(rdf),
     total_input_value |-> SeqSum([i \in 1..Len(bdf) |-> bdf[i].value_eur]),
     total_input_weight |-> SeqSum([i \in 1..Len(bdf) |-> bdf[i].weight_kg]),
     avg_queue_time |-> Frac(SeqSum([i \in 1..Len(bdf) |-> bdf[i].days_in_queue]),
                             Len(bdf))]

\* Entry of run_optimization: RuntimeError without an engine, else the
\* engine is called with the merged constraints.
RunOptimization ==
    /\ pc \in {"service", "service_no_engine"}
    /\ IF pc = "service_no_engine"
       THEN /\ raised' = "RuntimeError"
            /\ pc' = "raised"
            /\ UNCHANGED constraints
       ELSE /\ constraints' = MergeDefaults(constraints)
            /\ pc' = "create"
            /\ UNCHANGED raised
    /\ UNCHANGED <<batches_df, routes_df, solver_available, solver_created,
                   solver_sound, clock, n_iter, db_path, history, draw, batches,
                   routes, mode_assign, packed, routed, risk, otif, result>>

\* results['input_summary'] = {...}; return results.
RunOptimizationReturn ==
    /\ pc = "done"
    /\ result' = <<[f \in DOMAIN result[1] \cup {"input_summary"} |->
                     IF f = "input_summary"
                     THEN InputSummary(batches_df, routes_df)
                     ELSE result[1][f]]>>
    /\ pc' = "served"
    /\ UNCHANGED <<inputs, db_path, history, draw, batches, routes, mode_assign,
                   packed, routed, risk, otif, raised>>

InitService ==
    /\ pc \in {"service", "service_no_engine"}
    /\ batches_df \in {WithValueEur(t) : t \in BatchTables(PlanBatchRows, 1)}
    /\ routes_df \in RouteTables(RouteRows, 1)
    /\ NoSolver
    /\ n_iter = 1
    /\ constraints \in OtifConstraints
    /\ Blank

NextService ==
    \/ RunOptimization
    \/ RunOptimizationReturn
    \/ Next

SpecService == InitService /\ [][NextService]_vars

-----------------------------------------------------------------------------
(* _monte_carlo_risk_assessment with the generator observed *)

\* The containers with members.
DrawContainers == {c \in RiskContainers : c.items # <<>>}

\* Constraints maps that give monte_carlo_iter or leave it out.
DrawConstraints ==
    {[min_otif_rate |-> <<>>, monte_carlo_iter |-> k] :
        k \in {<<>>} \cup {<<i>> : i \in 1..MaxIter}}

InitDraw ==
    /\ pc = "risk"
    /\ batches_df = <<>>
    /\ routes_df = <<>>
    /\ NoSolver
    /\ n_iter \in 1..MaxPlanIter
    /\ constraints \in DrawConstraints
    /\ db_path = "schema"
    /\ history = <<>>
    /\ draw = [on |-> TRUE, normal |-> <<>>]
    /\ batches = <<>>
    /\ routes = <<>>
    /\ mode_assign = <<>>
    /\ packed = <<>>
    /\ routed \in SeqsUpTo(DrawContainers, MaxContainers)
    /\ risk = NoRisk
    /\ otif = NoOtif
    /\ result = <<>>
    /\ raised = "none"

NextDraw == MonteCarloRiskAssessmentStep

SpecDraw == InitDraw /\ [][NextDraw]_vars

-----------------------------------------------------------------------------
(* Properties *)

ModeReturned == pc \notin {"create", "mode"}

\* The routed plan exists: _optimize_routing has returned.
PlanRouted ==
    \/ pc \in {"risk", "otif", "compile", "persist", "done"}
    \/ pc = "raised" /\ raised \in {"ZeroDivisionError", "OperationalError"}

\* The risk assessment has returned.
RiskReturned ==
    \/ pc \in {"otif", "compile", "persist", "done"}
    \/ pc = "raised" /\ raised \in {"ZeroDivisionError", "OperationalError"}

\* The places of batch id in the containers' member lists.
PlacesOf(id, containers) ==
    UNION {{<<c, k>> : k \in {k \in 1..Len(containers[c].items) :
                                 containers[c].items[k].batch_id = id}} :
           c \in 1..Len(containers)}

Coverage(bs, containers) ==
    \A i \in 1..Len(bs) : Cardinality(PlacesOf(bs[i].batch_id, containers)) = 1

\* C1: for a non-empty batch list and a non-empty route list, with the solver
\* or without it, the run reaches a routed plan (the assignment step does
\* not raise) and every batch is a member of exactly one container of it.
C1_CoverageOnBothPaths ==
    (ModeReturned /\ batches # <<>> /\ routes # <<>>)
        => /\ raised # "KeyError"
           /\ PlanRouted => Coverage(batches, routed)

\* C2: for a non-empty route list, _optimize_transport_mode does not raise
\* and returns a mapping whose keys are exactly the batch ids and whose
\* values are route ids of the input.
C2_ModeReturnsTotalMapping ==
    (ModeReturned /\ routes # <<>>)
        => /\ raised # "KeyError"
           /\ DOMAIN mode_assign = BatchIds(batches)
           /\ \A id \in DOMAIN mode_assign : mode_assign[id] \in RouteIds(routes)

\* The LP solve cannot end OPTIMAL: no solver module, no solver object, a
\* solver that reports another status, or a model without a solution.
LpNotOptimal ==
    \/ ~solver_available
    \/ ~solver_created
    \/ ~solver_sound
    \/ LPSolutions(batches, routes, clock) = {}

\* C3: whenever the LP solve does not end OPTIMAL, _optimize_transport_mode
\* raises nothing and returns the mapping of _heuristic_mode_selection.
C3_FallbackEqualsHeuristic ==
    (ModeReturned /\ LpNotOptimal)
        => /\ raised # "KeyError"
           /\ mode_assign = HeuristicModeSelection(batches, routes)

FitsAContainer(batch) ==
    batch.weight_kg <= MAX_WEIGHT /\ batch.volume_m3 <= MAX_VOLUME

Exceeds(container) ==
    \/ container.total_weight > container.max_weight
    \/ container.total_volume > container.max_volume

\* C4: a packed container exceeds a ceiling only if it holds exactly one
\* batch, and none does when every batch fits a container by itself.
C4_SoftCapacity ==
    pc # "pack"
        => /\ \A c \in 1..Len(packed) :
                  Exceeds(packed[c]) => Len(packed[c].items) = 1
           /\ (\A i \in 1..Len(batches) : FitsAContainer(batches[i]))
                  => \A c \in 1..Len(packed) : ~Exceeds(packed[c])

C4_Witness ==
    /\ pc = "route"
    /\ \A i \in 1..Len(batches) : FitsAContainer(batches[i])
    /\ Len(packed) >= 2
    /\ \E c \in 1..Len(packed) :
          /\ Len(packed[c].items) = 2
          /\ packed[c].total_weight = packed[c].max_weight
          /\ packed[c].total_volume = packed[c].max_volume

\* C5: an oversized batch, wherever it stands in the input, is the only
\* member of its container, and every other batch is in another container.
C5_OversizedAlone ==
    pc # "pack"
        => \A i \in 1..Len(batches) :
              ~FitsAContainer(batches[i])
                  => \E c \in 1..Len(packed) :
                        /\ packed[c].items = <<batches[i]>>
                        /\ \A p \in PlacesOf(batches[i].batch_id, packed) : p[1] = c
                        /\ \A j \in 1..Len(batches) :
                              j # i => \E p \in PlacesOf(batches[j].batch_id, packed) :
                                           p[1] # c

C5_Witness ==
    /\ pc = "route"
    /\ Len(batches) = 3
    /\ FitsAContainer(batches[1])
    /\ ~FitsAContainer(batches[2])
    /\ FitsAContainer(batches[3])
    /\ Len(packed) = 3

\* The routes that can hold the container.
FeasibleRoutes(container, rs) ==
    {j \in 1..Len(rs) :
        /\ rs[j].capacity_kg >= container.total_weight
        /\ rs[j].capacity_m3 >= container.total_volume}

\* C6: a container some route can hold gets a feasible route of minimal
\* total_weight * cost_per_kg, the earliest of the input on a tie, and
\* route_cost is that product.
C6_CheapestFeasibleRoute ==
    pc = "risk"
        => \A c \in 1..Len(routed) :
              LET F == FeasibleRoutes(routed[c], routes)
                  w == routed[c].total_weight
              IN  F # {} =>
                    \E j \in F :
                        /\ routed[c].route = <<routes[j]>>
                        /\ routed[c].route_cost = w * routes[j].cost_per_kg
                        /\ \A k \in F :
                              /\ w * routes[j].cost_per_kg <= w * routes[k].cost_per_kg
                              /\ w * routes[k].cost_per_kg = w * routes[j].cost_per_kg
                                    => j <= k

C6_Witness ==
    /\ pc = "risk"
    /\ \E c \in 1..Len(routed) :
          LET F == FeasibleRoutes(routed[c], routes)
          IN  /\ Cardinality(F) = 2
              /\ \A j, k \in F : routes[j].cost_per_kg = routes[k].cost_per_kg
              /\ routed[c].route = <<routes[1]>>
              /\ routed[c].route_cost > 0

\* C7: with a non-empty route list every container gets a route, and a
\* container no route can hold gets the first route and route_cost 0.
C7_FallbackFirstRoute ==
    (pc = "risk" /\ routes # <<>>)
        => \A c \in 1..Len(routed) :
              /\ routed[c].route # <<>>
              /\ FeasibleRoutes(routed[c], routes) = {}
                    => /\ routed[c].route = <<routes[1]>>
                       /\ routed[c].route_cost = 0

C7_Witness ==
    /\ pc = "risk"
    /\ Len(routes) = 2
    /\ routes[1] # routes[2]
    /\ \E c \in 1..Len(routed) :
          /\ FeasibleRoutes(routed[c], routes) = {}
          /\ routed[c].route = <<routes[1]>>

\* The fraction f is the number a / b.
IsNumber(f, a, b) == f.den > 0 /\ f.num * b = a * f.den

\* C8: for an empty list of routed containers the risk assessment returns
\* OTIF mean 0.8, probability_below_80 0.2, mean delay 2.0, p95 delay 5.0
\* and risk score 25.0, and does not raise.
C8_EmptyDefaults ==
    (pc = "otif" /\ routed = <<>>)
        => /\ raised = "none"
           /\ IsNumber(risk.otif_mean, 8, 10)
           /\ IsNumber(risk.probability_below_80, 2, 10)
           /\ IsNumber(risk.mean_delay_days, 2, 1)
           /\ IsNumber(risk.p95_delay_days, 5, 1)
           /\ IsNumber(risk.risk_score, 25, 1)

C8_Witness ==
    /\ pc = "otif"
    /\ routed = <<>>
    /\ n_iter = 2

\* C9: a run with zero routes and a non-empty batch list gets the fixed
\* defaults (OTIF mean 0.8, risk score 25.0) from the risk assessment.
C9_ZeroRoutesRiskDefaults ==
    (RiskReturned /\ routes = <<>> /\ batches # <<>>)
        => /\ IsNumber(risk.otif_mean, 8, 10)
           /\ IsNumber(risk.risk_score, 25, 1)

\* (1 - mean) * 50 and min(mean_delay * 5, 50), from the returned statistics.
ShortfallOf(r) ==
    Frac((r.otif_mean.den - r.otif_mean.num) * 50, r.otif_mean.den)

DelayPartOf(r) ==
    Frac(r.risk_score.num * r.otif_mean.den
           - ShortfallOf(r).num * r.risk_score.den,
         r.risk_score.den * r.otif_mean.den)

InRange(f, lo, hi) == f.den > 0 /\ lo * f.den <= f.num /\ f.num <= hi * f.den

\* C10: for a non-empty list of routed containers the risk score is in
\* [0, 100]: its OTIF-shortfall term is in [0, 50] and the rest of it, the
\* delay term, is in [0, 50].
C10_RiskScoreRange ==
    (pc = "otif" /\ routed # <<>>)
        => /\ InRange(risk.risk_score, 0, 100)
           /\ InRange(ShortfallOf(risk), 0, 50)
           /\ InRange(DelayPartOf(risk), 0, 50)

C10_Witness ==
    /\ pc = "otif"
    /\ Len(routed) = 2
    /\ risk.mean_delay_days.num * 5 > 50 * risk.mean_delay_days.den
    /\ IsNumber(DelayPartOf(risk), 50, 1)
    /\ IsNumber(risk.risk_score, 100, 1)


\* The same container on a route that takes d days longer; a container
\* without a route keeps the default transit time.
Slower(container, d) ==
    IF container.route # <<>>
    THEN [container EXCEPT !.route[1].transit_days = @ + d]
    ELSE container

Slowdowns == {0, 3}

\* The plans that differ from containers only by longer transit times.
SlowerPlans(containers) ==
    {[c \in 1..Len(containers) |-> Slower(containers[c], ds[c])] :
        ds \in [1..Len(containers) -> Slowdowns]}

\* The risk assessment has returned with the jitter matrix draw.normal.
RiskDrawn == pc = "otif" /\ draw.on /\ routed # <<>>

\* C11: a second assessment of the same containers with the same due dates
\* and the same jitter matrix, in which no transit time is shorter, gives a
\* risk score that is not smaller, a mean OTIF that is not greater and a
\* mean delay that is not smaller.
C11_RiskMonotone ==
    RiskDrawn =>
        \A slower \in SlowerPlans(routed) :
            LET second == MonteCarloRiskAssessment(slower, n_iter, draw.normal)
            IN  /\ FracLe(risk.risk_score, second.risk_score)
                /\ FracLe(second.otif_mean, risk.otif_mean)
                /\ FracLe(risk.mean_delay_days, second.mean_delay_days)

\* A slower plan whose risk score is strictly greater.
C11_Witness ==
    /\ RiskDrawn
    /\ \E slower \in SlowerPlans(routed) :
          LET second == MonteCarloRiskAssessment(slower, n_iter, draw.normal)
          IN  /\ ~FracLe(second.risk_score, risk.risk_score)
              /\ ~FracLe(risk.otif_mean, second.otif_mean)
              /\ ~FracLe(second.mean_delay_days, risk.mean_delay_days)


\* The OTIF validation has returned.
OtifReturned ==
    \/ pc \in {"compile", "persist", "done"}
    \/ pc = "raised" /\ raised \in {"ZeroDivisionError", "OperationalError"}

\* The containers with a route, and those of them on a route of more than
\* 14 days.
WithRoute(containers) == {c \in 1..Len(containers) : containers[c].route # <<>>}

Over14(containers) ==
    {c \in WithRoute(containers) : containers[c].route[1].transit_days > 14}

\* C12: on_time_containers counts the containers with a route of at most
\* 14 days and no other (a container on a longer route is not counted
\* whatever its due dates, nor is one without a route), total_containers
\* is the number of containers, on_time_containers <= total_containers,
\* and otif_rate is their quotient, 0 when there is no container.
C12_OtifValidation ==
    OtifReturned =>
        /\ otif.total_containers = Len(routed)
        /\ otif.on_time_containers
             = Cardinality(WithRoute(routed)) - Cardinality(Over14(routed))
        /\ otif.on_time_containers <= otif.total_containers
        /\ Over14(routed) = WithRoute(routed) => otif.on_time_containers = 0
        /\ IF routed = <<>>
           THEN IsNumber(otif.otif_rate, 0, 1)
           ELSE IsNumber(otif.otif_rate, otif.on_time_containers, Len(routed))

\* A plan with a container on a 20-day route that would meet its due date
\* and a container that is counted.
C12_Witness ==
    /\ OtifReturned
    /\ \E c \in Over14(routed) : DueOf(routed[c]) >= TransitOf(routed[c])
    /\ otif.on_time_containers = 1
    /\ otif.total_containers = 2


\* constraints['min_otif_rate'] after run_optimization has merged the
\* caller's map over its defaults.
MinOtifRate(constr) ==
    IF constr.min_otif_rate = <<>> THEN Frac(8, 10) ELSE constr.min_otif_rate[1]

\* C13: meets_target is true exactly when otif_rate is at least the
\* min_otif_rate of the constraints map passed to the run, 0.80 when the
\* map does not give it.
C13_MeetsTargetFollowsConstraints ==
    OtifReturned =>
        (otif.meets_target <=> FracLe(MinOtifRate(constraints), otif.otif_rate))


\* C14: a run that returns appends exactly one row to the history table and
\* keeps the rows before it; a clear that succeeds leaves no row; every
\* other step (a run that raises, an engine construction, a clear that
\* fails) leaves the table as it was.  Hence the table holds one row for
\* each run that returned since the last clear.
C14_HistoryLedger ==
    [][/\ pc' = "done" =>
           /\ pc = "persist"
           /\ Len(history') = Len(history) + 1
           /\ SubSeq(history', 1, Len(history)) = history
       /\ (pc \in Rest /\ pc' = "cleared") => history' = <<>>
       /\ (pc' # "done" /\ ~(pc \in Rest /\ pc' = "cleared"))
             => history' = history]_vars

\* The history was cleared after a run had returned its bundle and left
\* its row.
C14_Witness ==
    /\ pc = "cleared"
    /\ db_path = "schema"
    /\ history = <<>>
    /\ result # <<>>
    /\ raised = "none"


Sections == {"optimized_plan", "kpis", "risk_analysis", "otif_compliance"}

\* The run has returned a bundle to its caller.
Returned == pc \in {"done", "served"}

\* C15: a run, called directly or through run_optimization, either returns
\* a bundle with all four sections, its history row written, or raises and
\* returns nothing; a failed history write is one of the errors that reach
\* the caller.
C15_AllOrNothing ==
    /\ Returned =>
          /\ raised = "none"
          /\ Len(result) = 1
          /\ Sections \subseteq DOMAIN result[1]
          /\ history = <<HistoryRow(result[1].kpis)>>
    /\ raised # "none" <=> pc = "raised"

\* The bundle was built, the history write failed and the error left the
\* run.
C15_Witness ==
    /\ pc = "raised"
    /\ raised = "OperationalError"
    /\ result # <<>>
    /\ history = <<>>


\* C16: a run on an empty batch table, or on batches without routes, does
\* not raise in its computing steps (no division by zero) and carries the
\* fixed defaults in its risk analysis.
C16_TotalOnEmptyInput ==
    (batches_df = <<>> \/ routes_df = <<>>) =>
        /\ raised \notin {"ZeroDivisionError", "KeyError"}
        /\ RiskReturned => risk = RiskDefaults


\* The bundle of the run has been built.
BundleBuilt == result # <<>>

\* C17: for batches of 100 kg and 50 kg (1 and 0.5 m3, Low) and one route
\* (1000 kg, 10 m3, 5.0 per kg, 3 days) both batches are mapped to the
\* route, the plan is one container on it with route_cost_eur = 750, and
\* the container's utilization_weight is 150/1000.
C17_SmallScenario ==
    (BundleBuilt /\ batches_df = ScenarioBatches /\ routes_df = ScenarioRoutes) =>
        LET plan == result[1].optimized_plan
        IN  /\ \A b \in DOMAIN mode_assign : mode_assign[b] = 1
            /\ Len(plan) = 1
            /\ plan[1].route_id = 1
            /\ plan[1].num_batches = 2
            /\ plan[1].route_cost_eur = 750
            /\ IsNumber(plan[1].utilization_weight, 150, 1000)


\* C18: the number of trials of a risk assessment (the rows of its jitter
\* matrix) is the monte_carlo_iter of the constraints map passed to the
\* run.  (Stated for the maps that give the key.)
C18_TrialsFromConstraints ==
    (RiskDrawn /\ constraints.monte_carlo_iter # <<>>)
        => Len(draw.normal) = constraints.monte_carlo_iter[1]


\* The id of the route attached to a container, NoRoute without one.
AttachedRouteId(container) ==
    IF container.route # <<>> THEN container.route[1].route_id ELSE NoRoute

\* C19: the route attached to a container of the routed plan is the route
\* the assignment mapping gives to each of its member batches.
C19_ContainerOnAssignedRoute ==
    (PlanRouted /\ raised = "none") =>
        \A c \in 1..Len(routed) : \A k \in 1..Len(routed[c].items) :
            mode_assign[routed[c].items[k].batch_id] = AttachedRouteId(routed[c])


\* C20: starting from an absent file, every engine construction completes
\* without raising and leaves the file with its history table (created by
\* the first construction, never created again) and with every row it
\* held before the construction.
C20_SchemaIdempotent ==
    [][EngineInit =>
          /\ pc' = "constructed"
          /\ raised' = raised
          /\ db_path' = "schema"
          /\ history' = history]_vars

\* An engine was constructed on a file that already held a row.
C20_Witness ==
    /\ pc = "constructed"
    /\ db_path = "schema"
    /\ Len(history) > 0


\* C21: in a returned bundle the KPI weight and volume totals are the sums
\* over the input batches, total_containers is the number of plan rows and
\* total_cost_eur is the sum of route_cost_eur over the plan rows.
C21_KpiConservation ==
    Returned =>
        LET kpis == result[1].kpis
            plan == result[1].optimized_plan
        IN  /\ kpis.total_weight_kg
                 = SeqSum([i \in 1..Len(batches_df) |-> batches_df[i].weight_kg])
            /\ kpis.total_volume_m3
                 = SeqSum([i \in 1..Len(batches_df) |-> batches_df[i].volume_m3])
            /\ kpis.total_containers = Len(plan)
            /\ kpis.total_cost_eur
                 = SeqSum([i \in 1..Len(plan) |-> plan[i].route_cost_eur])

\* A returned bundle of two containers with a route cost.
C21_Witness ==
    /\ Returned
    /\ Len(result[1].optimized_plan) = 2
    /\ result[1].kpis.total_cost_eur > 0


\* The batch objects have been created.
ObjectsCreated == pc = "mode"

\* C22: the priority of a batch is Critical when its delay_reason is
\* Investigation, whatever its days_in_queue; otherwise High above 25 days,
\* Medium from 15 to 25 days and Low up to 14 days.
C22_PriorityDerivation ==
    ObjectsCreated =>
        /\ Len(batches) = Len(batches_df)
        /\ \A i \in 1..Len(batches_df) :
              LET row == batches_df[i]
                  p == batches[i].priority
              IN  /\ row.delay_reason = "Investigation" => p = "Critical"
                  /\ row.delay_reason # "Investigation" =>
                        /\ row.days_in_queue > 25 => p = "High"
                        /\ row.days_in_queue \in 15..25 => p = "Medium"
                        /\ row.days_in_queue <= 14 => p = "Low"

\* A table with a row of 25 days and a row of 14 days, neither under
\* investigation.
C22_Witness ==
    /\ ObjectsCreated
    /\ \E i, j \in 1..Len(batches_df) :
          /\ batches_df[i].delay_reason = "QA"
          /\ batches_df[i].days_in_queue = 25
          /\ batches[i].priority = "Medium"
          /\ batches_df[j].delay_reason = "QA"
          /\ batches_df[j].days_in_queue = 14
          /\ batches[j].priority = "Low"


\* The assignment came from _heuristic_mode_selection called without a
\* solver.
HeuristicReturned == ModeReturned /\ ~(solver_available /\ solver_created)

\* The positions of the routes that hold the batch alone.
HoldingRoutes(batch, rs) ==
    {i \in 1..Len(rs) : /\ batch.weight_kg <= rs[i].capacity_kg
                        /\ batch.volume_m3 <= rs[i].capacity_m3}

\* C23: the heuristic maps each batch, whatever the other batches, to the
\* route that holds it at the least weight * cost_per_kg, the earliest of
\* the input order on ties; to the first route when none holds it; to no
\* route when the route list is empty.
C23_HeuristicAssignment ==
    HeuristicReturned =>
        /\ DOMAIN mode_assign = BatchIds(batches)
        /\ \A k \in 1..Len(batches) :
              LET b == batches[k]
                  r == mode_assign[b.batch_id]
                  holding == HoldingRoutes(b, routes)
              IN  IF routes = <<>> THEN r = NoRoute
                  ELSE IF holding = {} THEN r = routes[1].route_id
                  ELSE \E i \in holding :
                         /\ r = routes[i].route_id
                         /\ \A j \in holding :
                               /\ b.weight_kg * routes[i].cost_per_kg
                                    <= b.weight_kg * routes[j].cost_per_kg
                               /\ b.weight_kg * routes[i].cost_per_kg
                                    = b.weight_kg * routes[j].cost_per_kg => i <= j

\* The heuristic has mapped a batch that two routes hold at the same cost
\* and a batch that no route holds.
C23_Witness ==
    /\ HeuristicReturned
    /\ \E k \in 1..Len(batches) :
          /\ Cardinality(HoldingRoutes(batches[k], routes)) = 2
          /\ routes[1].cost_per_kg = routes[2].cost_per_kg
    /\ \E k \in 1..Len(batches) :
          routes # <<>> /\ HoldingRoutes(batches[k], routes) = {}


\* The assignment is the solver's: the LP path ran to status OPTIMAL.
LpReturned ==
    /\ ModeReturned
    /\ raised # "KeyError"
    /\ TransportMode(batches, routes, solver_available, solver_created,
                     solver_sound, clock).path = "lp"

\* The whole days from now to the due date of a batch.
WholeDaysLeft(batch) ==
    IF clock = "midnight" THEN batch.due_date ELSE batch.due_date - 1

\* The batches that the assignment puts on the route at position j.
BatchesOn(j) ==
    {i \in 1..Len(batches) : mode_assign[batches[i].batch_id] = routes[j].route_id}

\* C24: an assignment returned by the LP path keeps, on every route, the
\* summed weight and the summed volume of the batches mapped to it within
\* the route's capacities, and maps no Critical or High batch to a route
\* whose transit_days exceeds the whole days left to the batch's due date.
C24_LpAssignmentFeasible ==
    LpReturned =>
        /\ DOMAIN mode_assign = BatchIds(batches)
        /\ \A j \in 1..Len(routes) :
              /\ SeqSum([i \in 1..Len(batches) |->
                     IF i \in BatchesOn(j) THEN batches[i].weight_kg ELSE 0])
                   <= routes[j].capacity_kg
              /\ SeqSum([i \in 1..Len(batches) |->
                     IF i \in BatchesOn(j) THEN batches[i].volume_m3 ELSE 0])
                   <= routes[j].capacity_m3
              /\ \A i \in BatchesOn(j) :
                     batches[i].priority \in {"Critical", "High"}
                         => routes[j].transit_days <= WholeDaysLeft(batches[i])

\* The solver has put a Critical or High batch on a route that arrives on
\* the last whole day left to it.
C24_Witness ==
    /\ LpReturned
    /\ \E j \in 1..Len(routes) : \E i \in BatchesOn(j) :
          /\ batches[i].priority \in {"Critical", "High"}
          /\ routes[j].transit_days = WholeDaysLeft(batches[i])


\* _optimize_container_packing has returned.
PackingReturned == pc = "route" \/ PlanRouted

\* The member lists of the containers, one after the other.
RECURSIVE MembersInOrder(_)
MembersInOrder(containers) ==
    IF containers = <<>> THEN <<>>
    ELSE containers[1].items \o MembersInOrder(Tail(containers))

\* Adding the member at place k of the list items to the members before it
\* goes over the weight ceiling or over the volume ceiling.
GoesOver(items, k) ==
    \/ SeqSum([i \in 1..k |-> items[i].weight_kg]) > MAX_WEIGHT
    \/ SeqSum([i \in 1..k |-> items[i].volume_m3]) > MAX_VOLUME

\* C25: the containers of the packing are consecutive runs of the input
\* order (their member lists, one after the other, are the input list),
\* and a container ends before a batch exactly when adding the batch to
\* its members would exceed the weight or the volume ceiling: the first
\* member of a later container did not fit the container before it, and
\* every later member of a container fitted it.
C25_GreedySinglePass ==
    PackingReturned =>
        /\ MembersInOrder(packed) = batches
        /\ \A c \in 1..Len(packed) :
              /\ packed[c].items # <<>>
              /\ \A k \in 2..Len(packed[c].items) : ~GoesOver(packed[c].items, k)
              /\ c > 1 =>
                    LET before == packed[c - 1].items
                    IN  GoesOver(Append(before, packed[c].items[1]),
                                 Len(before) + 1)

\* Two containers, the first one filled to both ceilings by two batches.
C25_Witness ==
    /\ PackingReturned
    /\ Len(packed) = 2
    /\ Len(packed[1].items) = 2
    /\ packed[1].total_weight = MAX_WEIGHT
    /\ packed[1].total_volume = MAX_VOLUME


\* Days from today to the earliest due date of the members of a container;
\* today for a container without a route or without members.
EarliestDue(container) ==
    IF container.route # <<>> /\ container.items # <<>>
    THEN LET dues == {container.items[i].due_date : i \in 1..Len(container.items)}
         IN  CHOOSE d \in dues : \A e \in dues : d <= e
    ELSE 0

\* transit_days of the route of a container, 14 days without a route.
NominalTransit(container) ==
    IF container.route # <<>> THEN container.route[1].transit_days ELSE 14

\* The containers on time in trial t of the drawn matrix.
OnTimeIn(t) ==
    {c \in 1..Len(routed) :
        EarliestDue(routed[c]) >= NominalTransit(routed[c]) + draw.normal[t][c]}

\* The sum over the containers of their delay in trial t: arrival less the
\* days to the due date, 0 when that is negative.
DelaysIn(t) ==
    SeqSum([c \in 1..Len(routed) |->
        LET late == NominalTransit(routed[c]) + draw.normal[t][c]
                      - EarliestDue(routed[c])
        IN  IF late > 0 THEN late ELSE 0])

C27_NoEmptyContainer ==
    PackingReturned =>
        /\ batches = <<>> => packed = <<>>
        /\ \A c \in 1..Len(packed) :
              LET items == packed[c].items
              IN  /\ Len(items) >= 1
                  /\ packed[c].total_weight
                       = SeqSum([k \in 1..Len(items) |-> items[k].weight_kg])
                  /\ packed[c].total_volume
                       = SeqSum([k \in 1..Len(items) |-> items[k].volume_m3])

\* The first batch exceeds the weight ceiling alone and another container
\* follows its own.
C27_Witness ==
    /\ PackingReturned
    /\ Len(packed) >= 2
    /\ batches[1].weight_kg > MAX_WEIGHT
    /\ packed[1].items = <<batches[1]>>


\* C28: a step of a run that raises leaves the history table as it was, and
\* the table changes within a run only in the step after the complete
\* bundle was built, by one appended row.
C28_HistoryUnchangedOnFailure ==
    [][/\ pc' = "raised" => history' = history
       /\ (history' # history /\ pc' # "cleared") =>
             /\ pc = "persist"
             /\ raised = "none"
             /\ Len(result) = 1
             /\ Sections \subseteq DOMAIN result[1]
             /\ history' = Append(history, HistoryRow(result[1].kpis))]_vars

\* A run has raised in the KPI calculation and the table has no row.
C28_Witness ==
    /\ pc = "raised"
    /\ raised = "ZeroDivisionError"
    /\ history = <<>>


\* C29: when two constructions and the runs that follow them interleave on
\* one absent file, no CREATE TABLE and no INSERT raises, and once both
\* runs have returned the table holds the row of each.
C29_ConcurrentFirstUseSafe ==
    /\ \A e \in Engines : raised[e] # "OperationalError"
    /\ (\A e \in Engines : pc[e] = "done") => Len(history) = Cardinality(Engines)


\* Every mapping of the batches to a route or to none.
AnyAssignment == [BatchIds(batches) -> RouteIds(routes) \cup {NoRoute}]

\* C30: the plan, the KPIs and the OTIF section of the bundle are those that
\* packing and routing give from any mapping of the batches to routes, so
\* they are the same whichever path produced the assignment: every mapping
\* packs to the same containers, and the sections are computed from these
\* containers, the routes, the batches and the constraints alone.
C30_PlanIndependentOfAssignment ==
    BundleBuilt =>
        /\ \A a \in AnyAssignment : OptimizeContainerPacking(batches, a) = packed
        /\ routed = OptimizeRouting(packed, routes)
        /\ result[1].optimized_plan = CompileShipmentPlan(routed)
        /\ result[1].kpis = CalculateKpis(routed, batches)
        /\ result[1].otif_compliance = ValidateOtifConstraints(routed, constraints)

\* A bundle was built in which a container is attached to a route other than
\* the one the assignment gave to one of its batches.
C30_Witness ==
    /\ BundleBuilt
    /\ \E i \in 1..Len(routed) : \E k \in 1..Len(routed[i].items) :
          /\ routed[i].route # <<>>
          /\ mode_assign[routed[i].items[k].batch_id] # routed[i].route[1].route_id

=============================================================================
